---- MODULE Spec2Model ----
(***************************************************************************)
(* Model of siteshs.py: download of the operators' outage files,           *)
(* uniformization of each operator's table into the canonical schema,      *)
(* union of the per-operator tables and export as a GeoJSON collection.    *)
(*                                                                         *)
(* Cells of a table are tagged tuples: <<"nan">> (numpy NaN),              *)
(* <<"none">> (Python None), <<"str", s>> with s a sequence of             *)
(* one-character strings, <<"int", n>>, and <<"wgs", axis, x, y>> for a    *)
(* reprojected coordinate.  A table is a record [n, cols]: n rows and a    *)
(* function from column names to sequences of n cells.                     *)
(***************************************************************************)
EXTENDS Integers, Sequences, FiniteSets, TLC

VARIABLES pc, from_download, cur, attempt, events, returned, disk, writable,
          dataframe, echec, union_df, geojson,
          r_op, r_field, r_value, r_ret

vars == <<pc, from_download, cur, attempt, events, returned, disk, writable,
          dataframe, echec, union_df, geojson,
          r_op, r_field, r_value, r_ret>>

\* ---------------------------------------------------------------- bounds
NumOps == 2
MaxRows == 2
MaxFieldRows == 1
MaxValueLen == 3

\* ------------------------------------------------------------- constants
maxtry == 5
CodeWidth == 5
DeptWidth == 2

\* ----------------------------------------------------------------- cells
NaN == <<"nan">>
None == <<"none">>
StrCell(s) == <<"str", s>>
IntCell(n) == <<"int", n>>

IsStr(c) == c[1] = "str"
IsInt(c) == c[1] = "int"
isnull(c) == c[1] \in {"nan", "none"}

\* ------------------------------------------------------- Python strings
Digits == <<"0", "1", "2", "3", "4", "5", "6", "7", "8", "9">>
DigitSet == {Digits[k] : k \in 1..10}
DigitVal(ch) == (CHOOSE k \in 1..10 : Digits[k] = ch) - 1

\* code point of the characters the model uses (ord)
Ord(ch) ==
  CASE ch = "-" -> 45
    [] ch = "/" -> 47
    [] ch \in DigitSet -> 48 + DigitVal(ch)
    [] ch = ":" -> 58
    [] ch = "A" -> 65
    [] ch = "B" -> 66
    [] ch = "N" -> 78
    [] ch = "a" -> 97
    [] ch = "e" -> 101
    [] ch = "n" -> 110
    [] ch = "o" -> 111
    [] ch = "x" -> 120

Min2(a, b) == IF a <= b THEN a ELSE b

\* a < b for Python str: first differing code point, a proper prefix is smaller
StrLess(a, b) ==
  \E k \in 1..(Min2(Len(a), Len(b)) + 1) :
     /\ \A j \in 1..(k - 1) : a[j] = b[j]
     /\ \/ k <= Len(a) /\ k <= Len(b) /\ Ord(a[k]) < Ord(b[k])
        \/ k = Len(a) + 1 /\ k <= Len(b)

RECURSIVE IntToStr(_)
\* str(n) for n >= 0
IntToStr(n) ==
  IF n < 10 THEN <<Digits[n + 1]>>
  ELSE Append(IntToStr(n \div 10), Digits[(n % 10) + 1])

RECURSIVE StrToInt(_)
\* int(s) for a non-empty string of decimal digits
StrToInt(s) ==
  IF Len(s) = 0 THEN 0
  ELSE 10 * StrToInt(SubSeq(s, 1, Len(s) - 1)) + DigitVal(s[Len(s)])

IsDecimal(s) == Len(s) > 0 /\ \A k \in 1..Len(s) : s[k] \in DigitSet

RECURSIVE zfill(_, _)
\* Series.str.zfill(width) on unsigned text: pad with "0" on the left
zfill(s, width) == IF Len(s) >= width THEN s ELSE zfill(<<"0">> \o s, width)

\* s[0:k]
Prefix(s, k) == SubSeq(s, 1, Min2(k, Len(s)))

\* Series.astype(str) of one cell
astype_str(c) ==
  CASE IsStr(c) -> c[2]
    [] IsInt(c) -> IntToStr(c[2])
    [] c = NaN -> <<"n", "a", "n">>
    [] c = None -> <<"N", "o", "n", "e">>

\* Series.fillna('') of one cell
fillna(c) == IF isnull(c) THEN StrCell(<<>>) ELSE c

\* Series.astype(int) of one cell: the cells int() accepts
CanInt(c) == IsInt(c) \/ (IsStr(c) /\ IsDecimal(c[2]))
astype_int(c) == IF IsInt(c) THEN c[2] ELSE StrToInt(c[2])

\* ---------------------------------------------------------------- reformat
(* A rule is [match, format].  match is a sequence of atoms [class, group]:*)
(* each atom consumes one character of its class, and a grouped atom       *)
(* captures it; re.match anchors the pattern at the start of the value.    *)
(* format is a sequence of items <<"lit", ch>> or <<"arg", k>> for the     *)
(* replacement field {k} of str.format.                                    *)
re_match(pattern, value) ==
  /\ Len(value) >= Len(pattern)
  /\ \A k \in 1..Len(pattern) : value[k] \in pattern[k].class

RECURSIVE groups(_, _)
groups(pattern, value) ==
  IF Len(pattern) = 0 THEN <<>>
  ELSE LET n == Len(pattern)
           front == groups(SubSeq(pattern, 1, n - 1), value)
       IN IF pattern[n].group THEN Append(front, value[n]) ELSE front

\* str.format raises IndexError when a replacement field has no argument
format_raises(template, args) ==
  \E k \in 1..Len(template) : template[k][1] = "arg" /\ template[k][2] >= Len(args)

str_format(template, args) ==
  [k \in 1..Len(template) |->
     IF template[k][1] = "arg" THEN args[template[k][2] + 1] ELSE template[k][2]]

\* reformat without the fallback to the initial value when the pattern does not match
reformat_NoFallback(op, field, value) ==
  IF ~op.has_reformatting \/ field \notin DOMAIN op.reformatting \/ value = <<>>
  THEN value
  ELSE LET remap == op.reformatting[field] IN
       IF ~re_match(remap.match, value) THEN <<>>
       ELSE LET g == groups(remap.match, value) IN
            IF format_raises(remap.format, g) THEN value
            ELSE str_format(remap.format, g)

reformat(op, field, value) ==
  IF ~op.has_reformatting \/ field \notin DOMAIN op.reformatting \/ value = <<>>
  THEN value
  ELSE LET remap == op.reformatting[field] IN
       IF ~re_match(remap.match, value) THEN value
       ELSE LET g == groups(remap.match, value) IN
            IF format_raises(remap.format, g) THEN value
            ELSE str_format(remap.format, g)

\* ------------------------------------------------------------------ tables
EmptyFrame == [n |-> 0, cols |-> <<>>]
Columns(df) == DOMAIN df.cols
\* DataFrame.empty: no row or no column
empty(df) == df.n = 0 \/ Columns(df) = {}
\* a column of n cells and a table of such columns, built cell by cell
Column(n, cell(_)) == SubSeq([r \in 1..n |-> cell(r)], 1, n)
Table(n, names, cell(_, _)) ==
  [n |-> n,
   cols |-> [c \in names |-> SubSeq([r \in 1..n |-> cell(c, r)], 1, n)] @@ <<>>]
\* a table built column by column
Columnwise(n, names, column(_)) == [n |-> n, cols |-> [c \in names |-> column(c)] @@ <<>>]
ScalarColumn(n, c) == SubSeq([r \in 1..n |-> c], 1, n)

\* columns of the uniform table (operators.py)
equipment_columns ==
  <<"voix", "data", "voix2g", "voix3g", "voix4g", "data3g", "data4g", "data5g">>
detail_duree_columns ==
  <<"debut", "fin", "debut_data", "debut_voix", "fin_data", "fin_voix">>
all_columns ==
  <<"date", "op_code", "operateur", "departement", "code_postal", "code_insee",
    "commune", "lat", "long">> \o equipment_columns \o detail_duree_columns
Range(seq) == {seq[k] : k \in 1..Len(seq)}
AllColumns == Range(all_columns)
DetailColumns == Range(detail_duree_columns)
CopiedColumns == Range(equipment_columns) \cup {"lat", "long", "commune"}

\* the date the run is about
datename == StrCell(<<"2", "0", "2", "0", "-", "0", "1", "-", "0", "1">>)

\* DataFrame.rename(columns=structure): listed columns change name
rename(df, structure) ==
  LET target(c) == IF c \in DOMAIN structure THEN structure[c] ELSE c
      names == {target(c) : c \in Columns(df)}
      column(c) == df.cols[CHOOSE o \in Columns(df) : target(o) = c]
  IN Columnwise(df.n, names, column)

\* get_raw_dataframe: the parsed file, or an empty table when reading raises
get_raw_dataframe(file) == IF file.readable THEN file.table ELSE EmptyFrame

\* coords_conversion: lat/long from x/y; df is left alone when anything raises
coords_conversion(df) ==
  IF /\ {"x", "y"} \subseteq Columns(df)
     /\ \A r \in 1..df.n : IsInt(df.cols["x"][r]) /\ IsInt(df.cols["y"][r])
  THEN LET point(axis) ==
             Column(df.n, LAMBDA r : <<"wgs", axis, df.cols["x"][r][2], df.cols["y"][r][2]>>)
           column(c) == IF c = "lat" THEN point("y")
                        ELSE IF c = "long" THEN point("x")
                        ELSE df.cols[c]
       IN Columnwise(df.n, Columns(df) \cup {"lat", "long"}, column)
  ELSE df

\* collecte looking for 'OK' before 'HS'
collecte_OkFirst(row) ==
  IF \E k \in 1..Len(row) : row[k] = StrCell(<<"O", "K">>) THEN StrCell(<<"O", "K">>)
  ELSE IF \E k \in 1..Len(row) : row[k] = StrCell(<<"H", "S">>) THEN StrCell(<<"H", "S">>)
  ELSE None

\* collecte(row)
collecte(row) ==
  IF \E k \in 1..Len(row) : row[k] = StrCell(<<"H", "S">>) THEN StrCell(<<"H", "S">>)
  ELSE IF \E k \in 1..Len(row) : row[k] = StrCell(<<"O", "K">>) THEN StrCell(<<"O", "K">>)
  ELSE None

\* ------------------------------------------------------------- INSEE codes
CodeLead == DigitSet \cup {"A", "B"}
AllDigits(d, from, to) == \A k \in from..to : d[k] \in DigitSet
\* [0-9][0-9AB][0-9][0-9][0-9] at position p
Match5(d, p) ==
  p + 4 <= Len(d) /\ d[p] \in DigitSet /\ d[p + 1] \in CodeLead /\ AllDigits(d, p + 2, p + 4)
\* [0-9AB][0-9][0-9][0-9] at position p
Match4(d, p) ==
  p + 3 <= Len(d) /\ d[p] \in CodeLead /\ AllDigits(d, p + 1, p + 3)
MatchAt(d, p) == Match5(d, p) \/ Match4(d, p)
\* re.findall(...) is not empty
findall_any(d) == \E p \in 1..Len(d) : MatchAt(d, p)
\* re.findall(...)[0]: the leftmost match, the optional first digit taken when it can be
findall_first(d) ==
  LET p == CHOOSE q \in 1..Len(d) : MatchAt(d, q) /\ \A o \in 1..(q - 1) : ~MatchAt(d, o)
  IN IF Match5(d, p) THEN SubSeq(d, p, p + 4) ELSE SubSeq(d, p, p + 3)

\* --------------------------------------------------------------- sort_values
\* ordering of two cells of one key column, absent cells last (na_position='last')
CellLess(a, b) ==
  IF isnull(a) THEN FALSE
  ELSE IF isnull(b) THEN TRUE
  ELSE IF IsInt(a) THEN a[2] < b[2]
  ELSE StrLess(a[2], b[2])
CellTie(a, b) == ~CellLess(a, b) /\ ~CellLess(b, a)
sort_by == <<"departement", "code_insee", "code_postal">>
RowLess(nf, i, j) ==
  \E k \in 1..Len(sort_by) :
     /\ \A m \in 1..(k - 1) : CellTie(nf.cols[sort_by[m]][i], nf.cols[sort_by[m]][j])
     /\ CellLess(nf.cols[sort_by[k]][i], nf.cols[sort_by[k]][j])
\* position of row i after a stable sort
Rank(nf, i) ==
  1 + Cardinality({j \in 1..nf.n : RowLess(nf, j, i)})
    + Cardinality({j \in 1..(i - 1) : ~RowLess(nf, j, i) /\ ~RowLess(nf, i, j)})
\* the table left in the order of the source
sort_values_Unsorted(nf) == nf

sort_values(nf) ==
  LET rank == Column(nf.n, LAMBDA i : Rank(nf, i))
      perm == Column(nf.n, LAMBDA pos : CHOOSE i \in 1..nf.n : rank[i] = pos)
      cell(c, pos) == nf.cols[c][perm[pos]]
  IN Table(nf.n, Columns(nf), cell)

\* ---------------------------------------------------------- make_op_uniform
\* df[c] = col
SetCol(df, c, col) == [n |-> df.n, cols |-> (c :> col) @@ df.cols]

\* nf[field] for the fields of detail_duree_columns
detail_stage(op, df) ==
  LET column(c) ==
        IF c \in DetailColumns /\ c \in Columns(df)
        THEN Column(df.n, LAMBDA r : StrCell(reformat(op, c, astype_str(fillna(df.cols[c][r])))))
        ELSE ScalarColumn(df.n, NaN)
  IN Columnwise(df.n, AllColumns, column)

\* min(...) taken over the empty values as well
earliest_KeepsEmpty(a, b) == CHOOSE e \in {a, b} : \A o \in {a, b} : ~StrLess(o, e)

\* min(...) and max(...) of the non-empty values, '' when there is none
earliest(a, b) ==
  LET kept == {e \in {a, b} : e # <<>>}
  IN IF kept = {} THEN <<>>
     ELSE CHOOSE e \in kept : \A o \in kept : ~StrLess(o, e)
latest(a, b) ==
  LET kept == {e \in {a, b} : e # <<>>}
  IN IF kept = {} THEN <<>>
     ELSE CHOOSE e \in kept : \A o \in kept : ~StrLess(e, o)

date_stage(df, nf) ==
  LET nf1 == IF "debut" \notin Columns(df) /\ {"debut_data", "debut_voix"} \subseteq Columns(df)
             THEN SetCol(nf, "debut",
                    Column(nf.n, LAMBDA r :
                       StrCell(earliest(nf.cols["debut_data"][r][2], nf.cols["debut_voix"][r][2]))))
             ELSE nf
  IN IF "fin" \notin Columns(df) /\ {"fin_data", "fin_voix"} \subseteq Columns(df)
     THEN SetCol(nf1, "fin",
            Column(nf.n, LAMBDA r :
               StrCell(latest(nf1.cols["fin_data"][r][2], nf1.cols["fin_voix"][r][2]))))
     ELSE nf1

voix_parts == <<"voix2g", "voix3g", "voix4g">>
data_parts == <<"data3g", "data4g", "data5g">>
\* a row lookup s[...] raises KeyError when the column is not there
aggregate_raises(df) ==
  \/ "voix" \notin Columns(df) /\ ~(Range(voix_parts) \subseteq Columns(df))
  \/ "data" \notin Columns(df) /\ ~(Range(data_parts) \subseteq Columns(df))
aggregate_column(df, parts) ==
  Column(df.n, LAMBDA r : collecte([k \in 1..Len(parts) |-> df.cols[parts[k]][r]]))
aggregate_stage(df) ==
  LET df1 == IF "voix" \notin Columns(df)
             THEN SetCol(df, "voix", aggregate_column(df, voix_parts)) ELSE df
  IN IF "data" \notin Columns(df1)
     THEN SetCol(df1, "data", aggregate_column(df1, data_parts)) ELSE df1

\* the try block of the postal and INSEE codes: the statements done before one raises
insee_ok(df) == \A r \in 1..df.n : findall_any(astype_str(df.cols["code_insee"][r]))
postal_ok(df) == \A r \in 1..df.n : CanInt(df.cols["code_postal"][r])
code_stage(df, nf) ==
  LET has_dep == "departement" \in Columns(df)
      insee == Column(df.n, LAMBDA r :
                  StrCell(zfill(findall_first(astype_str(df.cols["code_insee"][r])), CodeWidth)))
      nf1 == SetCol(nf, "code_insee", insee)
      nf2 == IF has_dep THEN nf1
             ELSE SetCol(nf1, "departement",
                    Column(df.n, LAMBDA r : StrCell(Prefix(insee[r][2], DeptWidth))))
      postal == Column(df.n, LAMBDA r : IntCell(astype_int(df.cols["code_postal"][r])))
      with_postal(f) ==
        LET f1 == SetCol(f, "code_postal", postal)
        IN IF has_dep THEN f1
           ELSE SetCol(f1, "departement",
                  Column(df.n, LAMBDA r :
                     StrCell(Prefix(zfill(IntToStr(postal[r][2]), CodeWidth), DeptWidth))))
      after_insee == IF "code_insee" \in Columns(df) THEN nf2 ELSE nf
  IN IF "code_insee" \in Columns(df) /\ ~insee_ok(df) THEN nf
     ELSE IF "code_postal" \in Columns(df) /\ postal_ok(df) THEN with_postal(after_insee)
     ELSE after_insee

\* nf[col] = df.get(col), then the date and the operator
copy_stage(op, df, nf) ==
  LET column(c) ==
         IF c \in CopiedColumns
         THEN IF c \in Columns(df) THEN df.cols[c] ELSE ScalarColumn(nf.n, None)
         ELSE IF c = "date" THEN ScalarColumn(nf.n, datename)
         ELSE IF c = "op_code" THEN ScalarColumn(nf.n, op.code)
         ELSE IF c = "operateur" THEN ScalarColumn(nf.n, op.name)
         ELSE nf.cols[c]
  IN Columnwise(nf.n, Columns(nf), column)

(* The result of make_op_uniform(op): kind is "empty" after the early      *)
(* return, "failed" when the handler of line 183 ran, "done" otherwise;    *)
(* set tells whether op['dataframe'] was assigned, to the table nf.        *)
make_op_uniform(op, file, write_ok) ==
  LET raw == get_raw_dataframe(file) IN
  IF empty(raw) THEN [kind |-> "empty", set |-> FALSE, nf |-> EmptyFrame]
  ELSE
    LET renamed == rename(raw, op.structure)
        df == IF "lat" \notin Columns(renamed) \/ "long" \notin Columns(renamed)
              THEN coords_conversion(renamed) ELSE renamed
        nf1 == date_stage(df, detail_stage(op, df))
    IN IF aggregate_raises(df) THEN [kind |-> "failed", set |-> FALSE, nf |-> EmptyFrame]
       ELSE LET df2 == aggregate_stage(df)
                nf2 == sort_values(copy_stage(op, df2, code_stage(df2, nf1)))
            IN [kind |-> IF write_ok THEN "done" ELSE "failed", set |-> TRUE, nf |-> nf2]

\* ------------------------------------------------------------ the registry
Ops == 1..NumOps
date_rule ==
  [match |-> <<[class |-> DigitSet, group |-> TRUE],
               [class |-> {"/"}, group |-> FALSE],
               [class |-> DigitSet, group |-> TRUE]>>,
   format |-> <<<<"arg", 1>>, <<"lit", "-">>, <<"arg", 0>>>>]
\* odd operators declare reformatting rules, even ones have no 'reformatting' key
operateurs ==
  [k \in Ops |->
     [code |-> StrCell(<<"o", Digits[k + 1]>>),
      name |-> StrCell(<<"O", "p", Digits[k + 1]>>),
      structure |-> [c \in {"INSEE", "CP"} |->
                       IF c = "INSEE" THEN "code_insee" ELSE "code_postal"],
      has_reformatting |-> k % 2 = 1,
      reformatting |-> [f \in {"debut_data", "debut_voix", "fin_data", "fin_voix"} |->
                          date_rule]]]

\* ------------------------------------------------------ files of the model
Missing == [readable |-> FALSE, table |-> EmptyFrame]
Readable(t) == [readable |-> TRUE, table |-> t]
FrameOf(names, rows) == Table(Len(rows), names, LAMBDA c, r : rows[r][c])
SeqsUpTo(S, n) == UNION {[1..k -> S] : k \in 1..n}
Txt(a, b, c, d, e) == StrCell(<<a, b, c, d, e>>)
HS == StrCell(<<"H", "S">>)
OK == StrCell(<<"O", "K">>)
Blank == StrCell(<<>>)

RunColumns == {"INSEE", "CP", "voix", "data", "x", "y"}
RunRow(insee, cp, x) ==
  [c \in RunColumns |->
     CASE c = "INSEE" -> insee
       [] c = "CP" -> IntCell(cp)
       [] c = "x" -> x
       [] c = "y" -> IntCell(2)
       [] OTHER -> HS]
RunRows ==
  {RunRow(Txt("7", "5", "0", "5", "6"), 75001, IntCell(1)),
   RunRow(Txt("2", "A", "0", "0", "4"), 20000, NaN)}
HeaderOnly == Readable(FrameOf({"INSEE"}, <<>>))
NoStatus == Readable(FrameOf({"INSEE"}, <<[c \in {"INSEE"} |-> Txt("7", "5", "0", "5", "6")]>>))
OneSite == Readable(FrameOf(RunColumns, <<RunRow(Txt("7", "5", "0", "5", "6"), 75001, IntCell(1))>>))
RunFiles ==
  {Missing, HeaderOnly, NoStatus, OneSite}
  \cup {Readable(FrameOf(RunColumns, rows)) : rows \in [1..MaxRows -> RunRows]}
\* a file on disk, and whether the operator's output files can be written
RunEnvs ==
  {[file |-> f, writable |-> TRUE] : f \in RunFiles}
  \cup {[file |-> OneSite, writable |-> FALSE]}
\* what an operator's server may send
ServedFiles == {NoStatus, OneSite}

\* files that exercise the postal and INSEE codes; commune numbers the source rows
RowId(r) == StrCell(<<Digits[r + 1]>>)
InseeRaws ==
  {Txt("7", "5", "0", "5", "6"), Txt("2", "A", "0", "0", "4"),
   StrCell(<<"7", "5", "0">>), StrCell(<<"x", "1", "0", "0", "1", "x">>)}
PostalRaws == {IntCell(20000), IntCell(1000), StrCell(<<"7", "5", "0", "0", "x">>)}
CodeColumns == {"INSEE", "CP", "departement"}
CodeRow(insee, cp) ==
  [c \in CodeColumns \cup {"voix", "data"} |->
     CASE c = "INSEE" -> insee
       [] c = "CP" -> cp
       [] c = "departement" -> StrCell(<<"9", "9">>)
       [] OTHER -> HS]
CodeRows == {CodeRow(insee, cp) : insee \in InseeRaws, cp \in PostalRaws}
Numbered(names, rows) ==
  Table(Len(rows), names \cup {"commune"},
        LAMBDA c, r : IF c = "commune" THEN RowId(r) ELSE rows[r][c])
CodeFiles ==
  {Readable(Numbered(names \cup {"voix", "data"}, rows)) :
     names \in SUBSET CodeColumns, rows \in SeqsUpTo(CodeRows, MaxRows)}

\* files that exercise the voice and data aggregates
PartValues == {HS, OK, Blank}
PartColumns == Range(voix_parts) \cup Range(data_parts)
PartRow(a, b, c) ==
  [col \in PartColumns \cup {"voix", "data"} |->
     CASE col \in {"voix2g", "data3g", "data4g"} -> a
       [] col \in {"voix3g", "data5g"} -> b
       [] col = "voix4g" -> c
       [] OTHER -> OK]
PartRows == {PartRow(a, b, c) : a \in PartValues, b \in PartValues, c \in PartValues}
PartFiles ==
  {Readable(Numbered(PartColumns \cup direct, rows)) :
     direct \in SUBSET {"voix", "data"}, rows \in SeqsUpTo(PartRows, MaxFieldRows)}
  \cup {Readable(Numbered(PartColumns \ {"voix3g"}, rows)) :
          rows \in SeqsUpTo(PartRows, MaxFieldRows)}

\* files that exercise the start and end of an outage
DateRaws ==
  {Blank, NaN, StrCell(<<"1", "/", "2">>), StrCell(<<"2", "/", "1">>), StrCell(<<"1", "2">>)}
DateParts == {"debut_data", "debut_voix", "fin_data", "fin_voix"}
DateRow(d, v) ==
  [col \in DateParts \cup {"debut", "fin", "voix", "data"} |->
     CASE col \in {"debut_data", "fin_data"} -> d
       [] col \in {"debut_voix", "fin_voix"} -> v
       [] col \in {"debut", "fin"} -> StrCell(<<"9", "/", "9">>)
       [] OTHER -> OK]
DateRows == {DateRow(d, v) : d \in DateRaws, v \in DateRaws}
DateFiles ==
  {Readable(Numbered(names \cup {"voix", "data"}, rows)) :
     names \in {DateParts, DateParts \cup {"debut", "fin"}, DateParts \cup {"fin"},
                DateParts \ {"debut_voix"}},
     rows \in SeqsUpTo(DateRows, MaxFieldRows)}

FieldEnvs ==
  {[op |-> 1, file |-> f] : f \in CodeFiles \cup PartFiles}
  \cup {[op |-> k, file |-> f] : k \in Ops, f \in DateFiles}

\* operator configurations and values that exercise reformat
ValueChars == {"1", "2", "/"}
Values == UNION {[1..k -> ValueChars] : k \in 0..MaxValueLen}
ReformatFields == {"debut_data", "duree"}
ReformatOps ==
  LET rule(fmt) == [match |-> date_rule.match, format |-> fmt]
      with(fmt) == [operateurs[1] EXCEPT !.has_reformatting = TRUE,
                      !.reformatting = [f \in {"debut_data"} |-> rule(fmt)]]
  IN {[operateurs[1] EXCEPT !.has_reformatting = FALSE],
      with(date_rule.format),
      with(<<<<"arg", 0>>, <<"arg", 2>>>>),
      with(<<<<"lit", "-">>>>)}

\* -------------------------------------------------------------- the program
Init ==
  /\ from_download \in BOOLEAN
  /\ pc = IF from_download THEN "download" ELSE "uniformize"
  /\ cur = 1
  /\ attempt = 0
  /\ events = <<>>
  /\ returned = [k \in Ops |-> "pending"]
  /\ IF from_download
     THEN disk = [k \in Ops |-> Missing] /\ writable = [k \in Ops |-> TRUE]
     ELSE \E env \in [Ops -> RunEnvs] :
            /\ disk = [k \in Ops |-> env[k].file]
            /\ writable = [k \in Ops |-> env[k].writable]
  /\ dataframe = [k \in Ops |-> <<>>]
  /\ echec = [k \in Ops |-> "pending"]
  /\ union_df = EmptyFrame
  /\ geojson = <<>>
  /\ r_op = operateurs[1]
  /\ r_field = "debut"
  /\ r_value = <<>>
  /\ r_ret = <<>>

\* line 68-70: the next operator's download(op, 5) is called
CallDownload ==
  /\ pc = "download" /\ cur <= NumOps
  /\ pc' = "try"
  /\ attempt' = 0
  /\ events' = <<>>
  /\ UNCHANGED <<writable, from_download, cur, returned, disk, dataframe, echec, union_df,
                 geojson, r_op, r_field, r_value, r_ret>>

\* try_download(op) returns True: the content is saved at the raw path
TryDownloadOk ==
  /\ pc = "try" /\ attempt < maxtry
  /\ \E content \in ServedFiles : disk' = [disk EXCEPT ![cur] = content]
  /\ attempt' = attempt + 1
  /\ events' = Append(events, "ok")
  /\ returned' = [returned EXCEPT ![cur] = "True"]
  /\ cur' = cur + 1
  /\ pc' = "download"
  /\ UNCHANGED <<writable, from_download, dataframe, echec, union_df, geojson,
                 r_op, r_field, r_value, r_ret>>

\* a failed attempt followed at once by the next one
TryDownloadFail_NoWait ==
  /\ pc = "try" /\ attempt < maxtry
  /\ attempt' = attempt + 1
  /\ events' = Append(events, "fail")
  /\ pc' = "try"
  /\ UNCHANGED <<writable, from_download, cur, returned, disk, dataframe, echec, union_df,
                 geojson, r_op, r_field, r_value, r_ret>>

\* try_download(op) returns False: bad status or an exception
TryDownloadFail ==
  /\ pc = "try" /\ attempt < maxtry
  /\ attempt' = attempt + 1
  /\ events' = Append(events, "fail")
  /\ pc' = "sleep"
  /\ UNCHANGED <<writable, from_download, cur, returned, disk, dataframe, echec, union_df,
                 geojson, r_op, r_field, r_value, r_ret>>

\* time.sleep(5)
Sleep ==
  /\ pc = "sleep"
  /\ events' = Append(events, "sleep")
  /\ pc' = "try"
  /\ UNCHANGED <<writable, from_download, cur, attempt, returned, disk, dataframe, echec,
                 union_df, geojson, r_op, r_field, r_value, r_ret>>

\* range(maxtry) is exhausted: download returns None
DownloadGiveUp ==
  /\ pc = "try" /\ attempt = maxtry
  /\ returned' = [returned EXCEPT ![cur] = "None"]
  /\ cur' = cur + 1
  /\ pc' = "download"
  /\ UNCHANGED <<writable, from_download, attempt, events, disk, dataframe, echec, union_df,
                 geojson, r_op, r_field, r_value, r_ret>>

\* the download loop is over
EndDownloads ==
  /\ pc = "download" /\ cur = NumOps + 1
  /\ pc' = "uniformize"
  /\ cur' = 1
  /\ attempt' = 0
  /\ events' = <<>>
  /\ UNCHANGED <<writable, from_download, returned, disk, dataframe, echec, union_df,
                 geojson, r_op, r_field, r_value, r_ret>>

\* line 187-191: one turn of the uniformization loop
Uniformize ==
  /\ pc = "uniformize" /\ cur <= NumOps
  /\ LET res == make_op_uniform(operateurs[cur], disk[cur], writable[cur])
     IN /\ dataframe' = [dataframe EXCEPT ![cur] = IF res.set THEN <<res.nf>> ELSE <<>>]
        /\ echec' = [echec EXCEPT ![cur] = res.kind]
  /\ cur' = cur + 1
  /\ UNCHANGED <<writable, pc, from_download, attempt, events, returned, disk, union_df,
                 geojson, r_op, r_field, r_value, r_ret>>

RECURSIVE concat_column(_, _)
concat_column(frames, c) ==
  IF Len(frames) = 0 THEN <<>> ELSE Head(frames).cols[c] \o concat_column(Tail(frames), c)
RECURSIVE total_rows(_)
total_rows(frames) == IF Len(frames) = 0 THEN 0 ELSE Head(frames).n + total_rows(Tail(frames))
\* pd.concat of the tables, in the order of the list
concat(frames) ==
  Columnwise(total_rows(frames), AllColumns, LAMBDA c : concat_column(frames, c))

\* df.where(pd.notnull(df), None)
where_notnull(df) ==
  Table(df.n, Columns(df),
        LAMBDA c, r : IF isnull(df.cols[c][r]) THEN None ELSE df.cols[c][r])

RECURSIVE with_dataframe(_)
\* [op['dataframe'] for op in operateurs if 'dataframe' in op], over the first k operators
with_dataframe(k) ==
  IF k = 0 THEN <<>> ELSE with_dataframe(k - 1) \o dataframe[k]

\* line 194-196: pd.concat raises ValueError when the list is empty
Union ==
  /\ pc = "uniformize" /\ cur = NumOps + 1
  /\ IF with_dataframe(NumOps) = <<>>
     THEN pc' = "aborted" /\ UNCHANGED union_df
     ELSE pc' = "save" /\ union_df' = where_notnull(concat(with_dataframe(NumOps)))
  /\ UNCHANGED <<writable, from_download, cur, attempt, events, returned, disk, dataframe,
                 echec, geojson, r_op, r_field, r_value, r_ret>>

\* line 199-200: the merged table is written as CSV and JSON
Save ==
  /\ pc = "save"
  /\ pc' = "export"
  /\ UNCHANGED <<writable, from_download, cur, attempt, events, returned, disk, dataframe,
                 echec, union_df, geojson, r_op, r_field, r_value, r_ret>>

geojson_properties ==
  <<"operateur", "departement", "code_postal", "code_insee", "commune">>
    \o equipment_columns \o detail_duree_columns

\* df_to_geojson with the coordinates as [lat, long]
df_to_geojson_LatFirst(df, properties) ==
  [type |-> "FeatureCollection",
   features |->
     [r \in 1..df.n |->
        [type |-> "Feature",
         properties |-> [prop \in Range(properties) |-> df.cols[prop][r]],
         geometry |-> [type |-> "Point",
                       coordinates |-> <<df.cols["lat"][r], df.cols["long"][r]>>]]]]

df_to_geojson(df, properties) ==
  [type |-> "FeatureCollection",
   features |->
     [r \in 1..df.n |->
        [type |-> "Feature",
         properties |-> [prop \in Range(properties) |-> df.cols[prop][r]],
         geometry |-> [type |-> "Point",
                       coordinates |-> <<df.cols["long"][r], df.cols["lat"][r]>>]]]]

\* line 220-223
Export ==
  /\ pc = "export"
  /\ geojson' = df_to_geojson(union_df, geojson_properties)
  /\ pc' = "done"
  /\ UNCHANGED <<writable, from_download, cur, attempt, events, returned, disk, dataframe,
                 echec, union_df, r_op, r_field, r_value, r_ret>>

Next ==
  \/ CallDownload \/ TryDownloadOk \/ TryDownloadFail \/ Sleep \/ DownloadGiveUp
  \/ EndDownloads \/ Uniformize \/ Union \/ Save \/ Export

Spec == Init /\ [][Next]_vars

\* ---------------------------------------- one operator's file, uniformized
InitField ==
  /\ from_download = FALSE
  /\ pc = "uniformize"
  /\ cur = 1
  /\ attempt = 0
  /\ events = <<>>
  /\ returned = [k \in Ops |-> "pending"]
  /\ \E env \in FieldEnvs : disk = [k \in Ops |-> IF k = env.op THEN env.file ELSE Missing]
  /\ writable = [k \in Ops |-> TRUE]
  /\ dataframe = [k \in Ops |-> <<>>]
  /\ echec = [k \in Ops |-> "pending"]
  /\ union_df = EmptyFrame
  /\ geojson = <<>>
  /\ r_op = operateurs[1]
  /\ r_field = "debut"
  /\ r_value = <<>>
  /\ r_ret = <<>>

NextField == Uniformize

SpecField == InitField /\ [][NextField]_vars

\* ------------------------------------------------------- reformat, alone
InitReformat ==
  /\ from_download = FALSE
  /\ pc = "reformat"
  /\ cur = 1
  /\ attempt = 0
  /\ events = <<>>
  /\ returned = [k \in Ops |-> "pending"]
  /\ disk = [k \in Ops |-> Missing]
  /\ writable = [k \in Ops |-> TRUE]
  /\ dataframe = [k \in Ops |-> <<>>]
  /\ echec = [k \in Ops |-> "pending"]
  /\ union_df = EmptyFrame
  /\ geojson = <<>>
  /\ r_op \in ReformatOps
  /\ r_field \in ReformatFields
  /\ r_value \in Values
  /\ r_ret = <<>>

Reformat ==
  /\ pc = "reformat"
  /\ r_ret' = <<reformat(r_op, r_field, r_value)>>
  /\ pc' = "reformatted"
  /\ UNCHANGED <<writable, from_download, cur, attempt, events, returned, disk, dataframe,
                 echec, union_df, geojson, r_op, r_field, r_value>>

NextReformat == Reformat

SpecReformat == InitReformat /\ [][NextReformat]_vars

\* ================================================================= claims
Merged == pc \in {"save", "export", "done"}
Frame(k) == dataframe[k][1]
\* the operator's source table under its canonical column names
Source(k) == rename(disk[k].table, operateurs[k].structure)
\* the source row a uniform row comes from (commune numbers the source rows)
SourceRow(k, r) ==
  CHOOSE s \in 1..Source(k).n : Source(k).cols["commune"][s] = Frame(k).cols["commune"][r]
RowsOfOperator(k) ==
  {r \in 1..union_df.n : union_df.cols["op_code"][r] = operateurs[k].code}

\* C1: an operator whose make_op_uniform raised (at any stage, the writes of
\* its own files included) has no row in the merged dataset, which holds
\* exactly the rows of the operators whose pipeline succeeded.
C1_MergeCompleteness ==
  Merged =>
    \A k \in Ops :
       IF echec[k] = "done"
       THEN Cardinality(RowsOfOperator(k)) = Frame(k).n
       ELSE RowsOfOperator(k) = {}

\* C2: whatever the operators' outcomes, also when all of them fail or are
\* empty, the run goes past the loop, merges, exports and never raises.
C2_RunNeverAborts == pc # "aborted"

\* the ordering of the claim: an absent key is before every defined value
ClaimCellLess(a, b) ==
  IF isnull(b) THEN FALSE
  ELSE IF isnull(a) THEN TRUE
  ELSE IF IsInt(a) THEN a[2] < b[2]
  ELSE StrLess(a[2], b[2])
ClaimRowLess(df, i, j) ==
  \E k \in 1..Len(sort_by) :
     /\ \A m \in 1..(k - 1) :
          /\ ~ClaimCellLess(df.cols[sort_by[m]][i], df.cols[sort_by[m]][j])
          /\ ~ClaimCellLess(df.cols[sort_by[m]][j], df.cols[sort_by[m]][i])
     /\ ClaimCellLess(df.cols[sort_by[k]][i], df.cols[sort_by[k]][j])

C4_DepartmentDerivation ==
  \A k \in Ops :
     (dataframe[k] # <<>> /\ "departement" \notin Columns(Source(k))) =>
       \A r \in 1..Frame(k).n :
          LET insee == Frame(k).cols["code_insee"][r]
              postal == Frame(k).cols["code_postal"][r]
              dep == Frame(k).cols["departement"][r]
          IN /\ ("code_insee" \in Columns(Source(k)) /\ IsStr(insee))
                  => dep = StrCell(SubSeq(insee[2], 1, 2))
             /\ ("code_insee" \notin Columns(Source(k)) /\ IsInt(postal))
                  => dep = StrCell(SubSeq(zfill(IntToStr(postal[2]), 5), 1, 2))
             /\ ("code_insee" \notin Columns(Source(k))
                   /\ "code_postal" \notin Columns(Source(k)))
                  => isnull(dep)

\* the code the claim extracts from a raw value: the first substring of the
\* shape [0-9]?[0-9AB][0-9][0-9][0-9], '' when there is none
ClaimExtract(d) == IF findall_any(d) THEN findall_first(d) ELSE <<>>

\* C5: with a code_insee column, every row's code_insee is the code
\* extracted from its raw value ('' when nothing matches, without an error
\* and without effect on the other rows), padded with zeros to 5 characters.
C5_InseeNormalization ==
  \A k \in Ops :
     (dataframe[k] # <<>> /\ "code_insee" \in Columns(Source(k))) =>
       \A r \in 1..Frame(k).n :
          Frame(k).cols["code_insee"][r] =
            StrCell(zfill(ClaimExtract(astype_str(Source(k).cols["code_insee"][SourceRow(k, r)])), 5))

ClaimAggregate(parts) ==
  IF HS \in parts THEN HS ELSE IF OK \in parts THEN OK ELSE None

NonEmpty(a, b) == {e \in {a, b} : e # <<>>}

\* C9: without a debut column but with debut_data and debut_voix, every
\* row's debut is the smallest non-empty one of the two reformatted values,
\* '' when both are empty; without fin but with fin_data and fin_voix, fin
\* is the largest non-empty one, '' when both are empty; no row fails.
C9_DurationSynthesis ==
  \A k \in Ops :
     dataframe[k] # <<>> =>
       \A r \in 1..Frame(k).n :
          LET cell(c) == Frame(k).cols[c][r]
              has(c) == c \in Columns(Source(k))
              raw(c) == astype_str(fillna(Source(k).cols[c][SourceRow(k, r)]))
              reformatted(c) == cell(c) = StrCell(reformat(operateurs[k], c, raw(c)))
          IN /\ (~has("debut") /\ has("debut_data") /\ has("debut_voix")) =>
                  /\ reformatted("debut_data") /\ reformatted("debut_voix")
                  /\ IsStr(cell("debut"))
                  /\ LET kept == NonEmpty(cell("debut_data")[2], cell("debut_voix")[2])
                     IN IF kept = {} THEN cell("debut")[2] = <<>>
                        ELSE /\ cell("debut")[2] \in kept
                             /\ \A o \in kept : ~StrLess(o, cell("debut")[2])
             /\ (~has("fin") /\ has("fin_data") /\ has("fin_voix")) =>
                  /\ reformatted("fin_data") /\ reformatted("fin_voix")
                  /\ IsStr(cell("fin"))
                  /\ LET kept == NonEmpty(cell("fin_data")[2], cell("fin_voix")[2])
                     IN IF kept = {} THEN cell("fin")[2] = <<>>
                        ELSE /\ cell("fin")[2] \in kept
                             /\ \A o \in kept : ~StrLess(cell("fin")[2], o)

\* a row whose two reformatted starts differ, and a row with one empty start
C9_Witness ==
  \E k \in Ops :
     /\ dataframe[k] # <<>>
     /\ {"debut_data", "debut_voix"} \subseteq Columns(Source(k))
     /\ "debut" \notin Columns(Source(k))
     /\ \E r \in 1..Frame(k).n :
          /\ Frame(k).cols["debut_data"][r] = StrCell(<<"2", "-", "1">>)
          /\ Frame(k).cols["debut_voix"][r] = StrCell(<<"1", "-", "2">>)
          /\ Frame(k).cols["debut"][r] = StrCell(<<"1", "-", "2">>)
          /\ Frame(k).cols["fin"][r] = StrCell(<<"2", "-", "1">>)

\* C7: reformat returns the value as it is when the operator has no rule for
\* the field, when the value is '', when the pattern does not match or when
\* the template asks for a group the pattern has not; otherwise it returns
\* the template filled with the captured groups; it never raises.
C7_ReformatNeverAborts ==
  pc = "reformatted" =>
    /\ Len(r_ret) = 1
    /\ LET ruled == r_op.has_reformatting /\ r_field \in DOMAIN r_op.reformatting
           rule == r_op.reformatting[r_field]
           matches == /\ Len(r_value) >= Len(rule.match)
                      /\ \A k \in 1..Len(rule.match) : r_value[k] \in rule.match[k].class
           captured == {k \in 1..Len(rule.match) : rule.match[k].group}
           \* the position in the value of the j-th group, counted from 0
           group(j) == CHOOSE k \in captured :
                         Cardinality({m \in captured : m < k}) = j
           fits == \A k \in 1..Len(rule.format) :
                     rule.format[k][1] = "arg" => rule.format[k][2] < Cardinality(captured)
       IN IF ~ruled \/ r_value = <<>> THEN r_ret[1] = r_value
          ELSE IF ~matches \/ ~fits THEN r_ret[1] = r_value
          ELSE /\ Len(r_ret[1]) = Len(rule.format)
               /\ \A k \in 1..Len(rule.format) :
                    r_ret[1][k] = IF rule.format[k][1] = "arg"
                                  THEN r_value[group(rule.format[k][2])]
                                  ELSE rule.format[k][2]

\* a value the rule rewrites, 1/2 into 2-1
C7_Witness ==
  /\ pc = "reformatted"
  /\ r_value = <<"1", "/", "2">>
  /\ r_ret = <<<<"2", "-", "1">>>>

\* C8: the feature collection has one feature per row of the merged dataset,
\* in the order of the rows, each a Point at [long, lat] of its row (absent
\* or not) with the row's values of exactly the declared properties.
C8_GeoJsonShape ==
  pc = "done" =>
    /\ geojson.type = "FeatureCollection"
    /\ Len(geojson.features) = union_df.n
    /\ \A r \in 1..union_df.n :
         LET feature == geojson.features[r]
         IN /\ feature.type = "Feature"
            /\ feature.geometry.type = "Point"
            /\ feature.geometry.coordinates =
                 <<union_df.cols["long"][r], union_df.cols["lat"][r]>>
            /\ DOMAIN feature.properties = Range(geojson_properties)
            /\ \A prop \in Range(geojson_properties) :
                 feature.properties[prop] = union_df.cols[prop][r]

\* a collection with a located site and a site without coordinates
C8_Witness ==
  /\ pc = "done"
  /\ \E r, q \in 1..union_df.n :
       /\ isnull(union_df.cols["lat"][r])
       /\ geojson.features[r].geometry.coordinates = <<None, None>>
       /\ ~isnull(union_df.cols["lat"][q])
       /\ geojson.features[q].geometry.coordinates[1] = union_df.cols["long"][q]

tries(log) == Cardinality({k \in 1..Len(log) : log[k] \in {"ok", "fail"}})

\* C10: download makes at most maxtry attempts, none after a successful one,
\* which makes it return True; it sleeps after every failed attempt before
\* the next one; it ends, and when every attempt failed it returns without
\* raising and the other operators are still downloaded.
C10_BoundedRetry ==
  /\ tries(events) <= maxtry
  /\ Len(events) <= 2 * maxtry
  /\ \A k \in 1..Len(events) : events[k] = "ok" => k = Len(events)
  /\ (events # <<>> /\ events[Len(events)] = "ok")
       => (pc = "download" /\ returned[cur - 1] = "True")
  /\ \A k \in 1..(Len(events) - 1) : events[k] = "fail" => events[k + 1] = "sleep"
  /\ (pc = "try" /\ events # <<>>) => events[Len(events)] = "sleep"
  /\ (from_download /\ pc \notin {"download", "try", "sleep"})
       => \A k \in Ops : returned[k] \in {"True", "None"}

\* the downloads are over: the first operator failed five times, the last
\* one succeeded after a failure
C10_Witness ==
  /\ pc = "download" /\ cur = NumOps + 1
  /\ returned[1] = "None"
  /\ returned[NumOps] = "True"
  /\ Len(events) >= 3

====
